---- MODULE Spec2Model ----
(***************************************************************************)
(* N-dimensional Connect-Four engine (src/src/main.rs): the board, the     *)
(* disk insertion along the last axis, the win detection and the round    *)
(* counter of GameState.                                                   *)
(*                                                                         *)
(* Coordinates are 0-based as in the source; a position is a sequence of   *)
(* coordinates, a board a function from full positions to "None", "Red"    *)
(* or "Yellow" (Option<Color>).                                            *)
(***************************************************************************)
EXTENDS Integers, Sequences, FiniteSets

VARIABLES
    dims,        \* shape of board (board.dim()); fixed at construction
    board,       \* GameState.board
    check_vecs,  \* GameState.check_vecs
    round,       \* GameState.round
    ret,         \* result of the last call: "New", "TooFewDimensions",
                 \* "OkTrue", "OkFalse", "AxisFull", "BoardFull", "Panic"
    argColor,    \* color argument of the last play_disk call
    argPos,      \* pos argument of the last play_disk call, as passed in
    pos,         \* pos after the last play_disk call (it is a &mut Vec)
    palette,     \* the colors the caller of this game plays with
    nOk,         \* history: number of play_disk calls that returned Ok(_)
    nFalse,      \* history: number of play_disk calls that returned Ok(false)
    won          \* history: some play_disk call has returned Ok(true)

vars == <<dims, board, check_vecs, round, ret, argColor, argPos, pos,
          palette, nOk, nFalse, won>>

----------------------------------------------------------------------------
(* Bounds of the model *)

\* largest number of dimensions handed to GameState::new
MaxDims == 3
\* largest size of one dimension
MaxSize == 4
\* largest number of columns (product of all sizes but the last)
MaxCols == 4
\* largest number of cells of a game played with both colors
MaxCells == 8
\* largest number of cells of a game played with a single color
MaxMonoCells == 16

----------------------------------------------------------------------------
(* Program constants *)

\* the loop bound of check_direction: for _ in 0..3
SCAN_STEPS == 3
\* the score that wins: score >= 4
WIN_SCORE == 4

POSITION_CHANGES == <<1, 0, -1>>

Colors == {"Red", "Yellow"}

----------------------------------------------------------------------------
(* Vectors and shapes *)

RECURSIVE Product(_)
\* the number of elements of an array of shape d (ArrayD::len)
Product(d) == IF d = <<>> THEN 1 ELSE Head(d) * Product(Tail(d))

RECURSIVE Indices(_)
\* every index of an array of shape d
Indices(d) ==
    IF d = <<>> THEN {<<>>}
    ELSE {<<x>> \o t : x \in 0..(Head(d) - 1), t \in Indices(Tail(d))}

\* -direction
Neg(v) == [i \in DOMAIN v |-> -v[i]]

\* *starting_pos += direction
AddVec(p, d) == [i \in DOMAIN p |-> p[i] + d[i]]

\* Array::from_elem(dims, None)
from_elem(d, e) == [c \in Indices(d) |-> e]

\* board.len()
max_rounds(b) == Cardinality(DOMAIN b)

----------------------------------------------------------------------------
(* generate_check_vecs *)

RECURSIVE multi_cartesian_product(_)
\* (0..n).map(|_| POSITION_CHANGES).multi_cartesian_product(): the vectors of
\* length n over POSITION_CHANGES, in the order itertools yields them (the
\* last component changes fastest)
multi_cartesian_product(n) ==
    IF n = 0 THEN << <<>> >>
    ELSE LET rest == multi_cartesian_product(n - 1)
             k == Len(rest)
         IN [i \in 1..(Len(POSITION_CHANGES) * k) |->
                <<POSITION_CHANGES[((i - 1) \div k) + 1]>>
                    \o rest[((i - 1) % k) + 1]]

RECURSIVE insert_directions_same_sign(_, _, _)
\* a for_each that looks the vector itself up, not its inverse
insert_directions_same_sign(vecs, i, directions) ==
    IF i > Len(vecs) THEN directions
    ELSE insert_directions_same_sign(vecs, i + 1,
            IF vecs[i] \notin directions
            THEN directions \cup {vecs[i]}
            ELSE directions)

RECURSIVE insert_directions(_, _, _)
\* the for_each of generate_check_vecs from the i-th vector on: a vector is
\* inserted unless its inverse is already part of the set
insert_directions(vecs, i, directions) ==
    IF i > Len(vecs) THEN directions
    ELSE insert_directions(vecs, i + 1,
            IF Neg(vecs[i]) \notin directions
            THEN directions \cup {vecs[i]}
            ELSE directions)

\* the set of direction vectors of a board with n_dims dimensions
generate_check_vecs(n_dims) ==
    insert_directions(multi_cartesian_product(n_dims), 1, {})
        \ {[i \in 1..n_dims |-> 0]}

RECURSIVE SetToSeq(_)
\* one enumeration of a set
SetToSeq(S) ==
    IF S = {} THEN <<>>
    ELSE LET x == CHOOSE y \in S : TRUE IN <<x>> \o SetToSeq(S \ {x})

Reverse(s) == [i \in 1..Len(s) |-> s[Len(s) + 1 - i]]

\* orders in which `for direction in &self.check_vecs` may visit the set:
\* the order of a HashSet rests on its hasher's random keys
IterationOrders(S) ==
    IF S = {} THEN {<<>>}
    ELSE LET s == SetToSeq(S) IN {s, Reverse(s)}

----------------------------------------------------------------------------
(* Win detection *)

\* starting_pos.indexed_iter().any(|(i, &ind)| ind < 0 || ind >= dim()[i])
out_of_bounds(d, p) == \E i \in DOMAIN p : p[i] < 0 \/ p[i] >= d[i]

RECURSIVE check_steps(_, _, _, _, _, _)
\* the loop of check_direction with `left` iterations to go
check_steps(b, d, color, p, direction, left) ==
    IF left = 0 THEN 0
    ELSE LET q == AddVec(p, direction)
         IN IF out_of_bounds(d, q) \/ ~(color = b[q])
            THEN 0
            ELSE 1 + check_steps(b, d, color, q, direction, left - 1)

\* the number of disks of `color` that follow starting_pos in `direction`
check_direction(b, d, color, starting_pos, direction) ==
    check_steps(b, d, color, starting_pos, direction, SCAN_STEPS)

\* an iteration that forgets the opposite direction
direction_wins_forward_only(b, d, color, p, direction) ==
    1 + check_direction(b, d, color, p, direction) >= WIN_SCORE

\* one iteration of the loop of is_win_position: TRUE when it returns true
direction_wins(b, d, color, p, direction) ==
    LET score1 == 1 + check_direction(b, d, color, p, direction)
    IN IF score1 >= WIN_SCORE THEN TRUE
       ELSE score1 + check_direction(b, d, color, p, Neg(direction))
                >= WIN_SCORE

RECURSIVE scan_directions(_, _, _, _, _, _)
\* the loop of is_win_position from the i-th direction on
scan_directions(b, d, vecs, color, p, i) ==
    IF i > Len(vecs) THEN FALSE
    ELSE IF direction_wins(b, d, color, p, vecs[i]) THEN TRUE
    ELSE scan_directions(b, d, vecs, color, p, i + 1)

is_win_position(b, d, vecs, color, p) ==
    scan_directions(b, d, vecs, color, p, 1)

----------------------------------------------------------------------------
(* Insertion *)

\* the cells of the column selected by index_from_pos(p), as the indices
\* along the last axis that are in the board
column(b, d, p) == {i \in 0..(d[Len(d)] - 1) : Append(p, i) \in DOMAIN b}

\* column.into_iter().find_position(|elem| elem.is_none()): the free indices
free_indices(b, d, p) == {i \in column(b, d, p) : b[Append(p, i)] = "None"}

\* an insertion that scans the column from its far end
insert_disk_from_top(b, d, color, p) ==
    LET free == free_indices(b, d, p)
    IN IF free # {}
       THEN LET i == CHOOSE j \in free : \A k \in free : j >= k
            IN [ok |-> TRUE,
                board |-> [b EXCEPT ![Append(p, i)] = color],
                pos |-> Append(p, i)]
       ELSE [ok |-> FALSE, board |-> b, pos |-> p]

\* an insertion that marks every free cell of the column
insert_disk_fills_column(b, d, color, p) ==
    LET free == free_indices(b, d, p)
    IN IF free # {}
       THEN LET i == CHOOSE j \in free : \A k \in free : j <= k
            IN [ok |-> TRUE,
                board |-> [c \in DOMAIN b |->
                             IF \E j \in free : c = Append(p, j)
                             THEN color ELSE b[c]],
                pos |-> Append(p, i)]
       ELSE [ok |-> FALSE, board |-> b, pos |-> p]

\* an insertion that, in a full column, writes over the last cell
insert_disk_overwrites_top(b, d, color, p) ==
    LET free == free_indices(b, d, p)
        i == IF free # {}
             THEN CHOOSE j \in free : \A k \in free : j <= k
             ELSE d[Len(d)] - 1
    IN [ok |-> TRUE,
        board |-> [b EXCEPT ![Append(p, i)] = color],
        pos |-> Append(p, i)]

\* insert_disk: [ok, board, pos]
insert_disk(b, d, color, p) ==
    LET free == free_indices(b, d, p)
    IN IF free # {}
       THEN LET i == CHOOSE j \in free : \A k \in free : j <= k
            IN [ok |-> TRUE,
                board |-> [b EXCEPT ![Append(p, i)] = color],
                pos |-> Append(p, i)]
       ELSE [ok |-> FALSE, board |-> b, pos |-> p]

----------------------------------------------------------------------------
(* GameState *)

\* current_round()
current_round(r) == r

\* disks_played()
disks_played(r) == current_round(r) - 1

\* a capacity test that is off by one
board_full_at_capacity(r, b) == r >= max_rounds(b)

\* if self.round > self.board.len()
board_full(r, b) == r > max_rounds(b)

\* check_input: TRUE when it panics
check_input_panics(b, d, p) == Len(p) # Len(d) - 1

\* a round counter that also counts the winning move
next_round_always(r, win) == r + 1

\* if !win { self.round += 1; }
next_round(r, win) == IF ~win THEN r + 1 ELSE r

\* a constructor that accepts a single dimension
too_few_dimensions_below_one(d) == Len(d) < 1

\* dims.len() < 2
too_few_dimensions(d) == Len(d) < 2

\* the shapes of n dimensions GameState::new is called with: each size is
\* between 2 and MaxSize
RECURSIVE Shapes(_)
Shapes(n) ==
    IF n = 0 THEN {<<>>}
    ELSE {Append(s, x) : s \in Shapes(n - 1), x \in 2..MaxSize}

\* the colors the caller plays with: one color or both
Palettes == {{"Red"}, Colors}

InputDims(colors) ==
    {d \in UNION {Shapes(n) : n \in 0..MaxDims} :
        /\ Product(d) <= (IF Cardinality(colors) > 1
                          THEN MaxCells ELSE MaxMonoCells)
        /\ (d # <<>> => Product(SubSeq(d, 1, Len(d) - 1)) <= MaxCols)}

\* the positions play_disk is called with: every position of the right
\* length inside the board, and one position that is a coordinate short and
\* one that is a coordinate long
InputPositions(b, d) ==
    {SubSeq(c, 1, Len(d) - 1) : c \in DOMAIN b}
        \cup {[i \in 1..(Len(d) - 2) |-> 0], [i \in 1..Len(d) |-> 0]}

\* a round counter that starts at 0
initial_round_zero == 1 - 1

\* round: 1
initial_round == 1

\* GameState::new(dims)
Init ==
    /\ palette \in Palettes
    /\ dims \in InputDims(palette)
    /\ argColor = "None"
    /\ argPos = <<>>
    /\ pos = <<>>
    /\ nOk = 0
    /\ nFalse = 0
    /\ won = FALSE
    /\ IF too_few_dimensions(dims)
       THEN /\ ret = "TooFewDimensions"
            /\ board = <<>>
            /\ check_vecs = {}
            /\ round = 0
       ELSE /\ ret = "New"
            /\ board = from_elem(dims, "None")
            /\ check_vecs = generate_check_vecs(Len(dims))
            /\ round = initial_round

\* a call that returns an error or panics: nothing of the game changes, and
\* pos is as it was passed in
Rejected(result, p) ==
    /\ ret' = result
    /\ pos' = p
    /\ UNCHANGED <<board, round, nOk, nFalse, won>>

\* lines 53-58 of play_disk, after insert_disk has placed the disk: `ins` is
\* the outcome of insert_disk and `win` the result of is_win_position, which
\* scans check_vecs in some order. nOk, nFalse and won record the results
\* returned so far.
Accepted(color, ins) ==
    \E order \in IterationOrders(check_vecs) :
    \E win \in {is_win_position(ins.board, dims, order, color, ins.pos)} :
        /\ board' = ins.board
        /\ pos' = ins.pos
        /\ round' = next_round(round, win)
        /\ ret' = (IF win THEN "OkTrue" ELSE "OkFalse")
        /\ nOk' = nOk + 1
        /\ nFalse' = (IF win THEN nFalse ELSE nFalse + 1)
        /\ won' = (won \/ win)

\* a play_disk that counts the round before it inserts, so that a call that
\* ends in AxisFull still consumes a round
play_disk_counting_rejected(color, p) ==
    /\ ret \notin {"TooFewDimensions", "Panic"}
    /\ argColor' = color
    /\ argPos' = p
    /\ UNCHANGED <<dims, check_vecs, palette>>
    /\ IF board_full(round, board) THEN Rejected("BoardFull", p)
       ELSE IF check_input_panics(board, dims, p) THEN Rejected("Panic", p)
       ELSE \E ins \in {insert_disk(board, dims, color, p)} :
            IF ~ins.ok
            THEN /\ ret' = "AxisFull"
                 /\ pos' = p
                 /\ round' = round + 1
                 /\ UNCHANGED <<board, nOk, nFalse, won>>
            ELSE Accepted(color, ins)

\* a play_disk that checks the shape of pos before it tests for a full board
play_disk_checks_input_first(color, p) ==
    /\ ret \notin {"TooFewDimensions", "Panic"}
    /\ argColor' = color
    /\ argPos' = p
    /\ UNCHANGED <<dims, check_vecs, palette>>
    /\ IF check_input_panics(board, dims, p) THEN Rejected("Panic", p)
       ELSE IF board_full(round, board) THEN Rejected("BoardFull", p)
       ELSE \E ins \in {insert_disk(board, dims, color, p)} :
            IF ~ins.ok THEN Rejected("AxisFull", ins.pos)
            ELSE Accepted(color, ins)

\* play_disk(color, p) on a game that exists and whose thread has not
\* panicked
play_disk(color, p) ==
    /\ ret \notin {"TooFewDimensions", "Panic"}
    /\ argColor' = color
    /\ argPos' = p
    /\ UNCHANGED <<dims, check_vecs, palette>>
    /\ IF board_full(round, board) THEN Rejected("BoardFull", p)
       ELSE IF check_input_panics(board, dims, p) THEN Rejected("Panic", p)
       ELSE \E ins \in {insert_disk(board, dims, color, p)} :
            IF ~ins.ok THEN Rejected("AxisFull", ins.pos)
            ELSE Accepted(color, ins)

Next ==
    \E color \in palette, p \in InputPositions(board, dims) :
        play_disk(color, p)

Spec == Init /\ [][Next]_vars

----------------------------------------------------------------------------
(* Notions the properties are stated in *)

\* capacity: the product of the dimension sizes
Capacity == Product(dims)

OkResults == {"OkTrue", "OkFalse"}

\* the number of occupied cells of the board
Occupied == Cardinality({c \in DOMAIN board : board[c] # "None"})

\* every cell of the column at the fixed coordinates p holds a disk
ColumnOccupied(b, d, p) ==
    \A i \in 0..(d[Len(d)] - 1) : b[Append(p, i)] # "None"

\* p has the length play_disk asks for
RightLength(d, p) == Len(p) = Len(d) - 1

\* the non-zero vectors of {-1, 0, 1}^n
StepVectors(n) == [1..n -> {-1, 0, 1}] \ {[i \in 1..n |-> 0]}

\* the cell p + k * v
Shift(p, v, k) == [i \in DOMAIN p |-> p[i] + k * v[i]]

\* p lies on 4 consecutive cells of the board along v that all hold color
OnLineOfFour(b, d, color, p, v) ==
    \E k \in 0..3 : \A j \in 0..3 :
        LET q == Shift(p, v, j - k)
        IN /\ \A i \in DOMAIN q : q[i] >= 0 /\ q[i] < d[i]
           /\ b[q] = color

HasLineOfFour(b, d, color, p) ==
    \E v \in StepVectors(Len(d)) : OnLineOfFour(b, d, color, p, v)

\* every rotation of one enumeration of S
Rotations(S) ==
    LET s == SetToSeq(S)
    IN {[i \in 1..Len(s) |-> s[((i - 1 + k) % Len(s)) + 1]] : k \in 1..Len(s)}

----------------------------------------------------------------------------
(* C1 *)

\* C1: an accepted play_disk returns true if and only if the cell the disk
\* landed on lies on 4 consecutive cells of the board, along some non-zero
\* step vector of {-1,0,1}^D, that all hold the played color; the result is
\* the same in whatever order the directions are scanned.
C1_WinIffLineOfFour ==
    ret \in OkResults =>
        /\ (ret = "OkTrue") <=> HasLineOfFour(board, dims, argColor, pos)
        /\ \A order \in Rotations(check_vecs) :
              is_win_position(board, dims, order, argColor, pos)
                  <=> (ret = "OkTrue")

\* a win along a diagonal
C1_Witness ==
    /\ ret = "OkTrue"
    /\ \E v \in StepVectors(Len(dims)) :
          /\ Cardinality({i \in DOMAIN v : v[i] # 0}) >= 2
          /\ OnLineOfFour(board, dims, argColor, pos, v)

----------------------------------------------------------------------------
(* C2 *)

\* C2: once capacity moves were accepted and each returned Ok(false), every
\* further play_disk fails with BoardFull and leaves board and round as they
\* are; and BoardFull is returned only then.
C2_BoardFullAfterCapacity ==
    [][/\ (ret # "TooFewDimensions" /\ nOk = Capacity /\ nFalse = Capacity)
            => (ret' = "BoardFull" /\ board' = board /\ round' = round)
       /\ ret' = "BoardFull" => (nOk = Capacity /\ nFalse = Capacity)]_vars

\* BoardFull returned to a call with a position of the wrong length, on a
\* board filled by both colors
C2_Witness ==
    /\ ret = "BoardFull"
    /\ nFalse = Capacity
    /\ ~RightLength(dims, argPos)
    /\ \E c, e \in DOMAIN board : board[c] = "Red" /\ board[e] = "Yellow"

----------------------------------------------------------------------------
(* C3 *)

\* C3: with round <= capacity, a play_disk into a column whose cells are all
\* occupied fails with AxisFull and changes neither the board nor the round;
\* a play_disk that follows it at another position, whose column is not
\* full, is accepted.
C3_AxisFullKeepsState ==
    [][/\ (/\ ret \notin {"TooFewDimensions", "Panic"}
           /\ round <= Capacity
           /\ RightLength(dims, argPos')
           /\ ColumnOccupied(board, dims, argPos'))
            => (ret' = "AxisFull" /\ board' = board /\ round' = round)
       /\ (/\ ret = "AxisFull"
           /\ RightLength(dims, argPos')
           /\ argPos' # argPos
           /\ ~ColumnOccupied(board, dims, argPos'))
            => ret' \in OkResults]_vars

\* AxisFull on a full column while another column has room
C3_Witness ==
    /\ ret = "AxisFull"
    /\ round <= Capacity
    /\ ColumnOccupied(board, dims, argPos)
    /\ \E c \in DOMAIN board : board[c] = "None"

----------------------------------------------------------------------------
(* C4 *)

\* C4: GameState::new fails with TooFewDimensions exactly when dims has fewer
\* than 2 entries; otherwise the new game has every cell empty, round 1 and
\* max_rounds equal to the product of the dimension sizes.
C4_NewGame ==
    /\ (ret = "TooFewDimensions") <=> (Len(dims) < 2)
    /\ ret = "New" =>
          /\ DOMAIN board = Indices(dims)
          /\ \A c \in DOMAIN board : board[c] = "None"
          /\ round = 1
          /\ max_rounds(board) = Capacity

\* new refused a single dimension
C4_Witness == ret = "TooFewDimensions" /\ Len(dims) = 1

----------------------------------------------------------------------------
(* C5 *)

\* C5: an accepted play_disk puts the disk on the smallest index along the
\* last axis whose cell was empty, that cell then holds the color, and pos
\* is the position passed in with that index appended; a call that fails
\* with AxisFull or BoardFull leaves pos as it was passed in.
C5_LandsOnFirstFree ==
    [][/\ ret' \in OkResults =>
            /\ Len(pos') = Len(argPos') + 1
            /\ pos' = Append(argPos', pos'[Len(pos')])
            /\ board[pos'] = "None"
            /\ \A j \in 0..(pos'[Len(pos')] - 1) :
                  board[Append(argPos', j)] # "None"
            /\ board'[pos'] = argColor'
       /\ ret' \in {"AxisFull", "BoardFull"} => pos' = argPos']_vars

\* a disk that landed on another one, with a free cell above it
C5_Witness ==
    /\ ret \in OkResults
    /\ pos[Len(pos)] >= 1
    /\ pos[Len(pos)] + 1 < dims[Len(dims)]
    /\ board[pos] = argColor

----------------------------------------------------------------------------
(* C6 *)

\* C6: an accepted play_disk changes exactly one cell, from empty to the
\* played color; every other cell, the shape of the board and the direction
\* set stay as they are.
C6_OneCellChanges ==
    [][ret' \in OkResults =>
          /\ \E c \in DOMAIN board :
                /\ board[c] = "None"
                /\ board'[c] = argColor'
                /\ \A e \in DOMAIN board \ {c} : board'[e] = board[e]
          /\ DOMAIN board' = DOMAIN board
          /\ dims' = dims
          /\ check_vecs' = check_vecs]_vars

\* a winning disk placed into a column with two or more free cells
C6_Witness ==
    /\ ret = "OkTrue"
    /\ Cardinality(free_indices(board, dims, argPos)) >= 1

----------------------------------------------------------------------------
(* C7 *)

\* C7: current_round is 1 in a new game, grows by exactly 1 with every
\* play_disk that returns Ok(false) and stays as it is when play_disk
\* returns Ok(true), AxisFull or BoardFull; disks_played is current_round - 1
\* (and no less than 0) in every state of a game.
C7_RoundBookkeeping ==
    /\ ret = "New" => current_round(round) = 1
    /\ [][/\ ret' = "OkFalse" =>
                current_round(round') = current_round(round) + 1
          /\ ret' \in {"OkTrue", "AxisFull", "BoardFull"} =>
                current_round(round') = current_round(round)]_vars
    /\ [](ret # "TooFewDimensions" =>
            /\ disks_played(round) = current_round(round) - 1
            /\ disks_played(round) >= 0)

\* a winning move after which the round counter lags the disks on the board
C7_Witness ==
    /\ ret = "OkTrue"
    /\ current_round(round) = nFalse + 1
    /\ nOk = nFalse + 1

----------------------------------------------------------------------------
(* C8 *)

\* C8: once a play_disk has returned Ok(true), no later call places a disk,
\* changes the round or returns Ok.
C8_WonIsTerminal ==
    [][won => /\ ret' \notin OkResults
              /\ board' = board
              /\ round' = round]_vars

----------------------------------------------------------------------------
(* C9 *)

\* C9: disks_played equals the number of occupied cells of the board in
\* every state of a game.
C9_DisksPlayedIsOccupied ==
    ret # "TooFewDimensions" => disks_played(round) = Occupied

----------------------------------------------------------------------------
(* C10 *)

\* C10: when every cell of the board is occupied, play_disk fails with
\* BoardFull (stated for the positions of the right length, which cannot
\* panic): a full board is never reported as AxisFull.
C10_FullBoardIsBoardFull ==
    [][(/\ ret \notin {"TooFewDimensions", "Panic"}
        /\ Occupied = Capacity
        /\ RightLength(dims, argPos'))
          => ret' = "BoardFull"]_vars

----------------------------------------------------------------------------
(* C11 *)

\* C11: in every state of a game 1 <= round <= capacity + 1; a play_disk is
\* accepted only from a state with round <= capacity; and once round exceeds
\* capacity every call is rejected and leaves board and round as they are.
C11_RoundWithinCapacity ==
    /\ [](ret # "TooFewDimensions" => (1 <= round /\ round <= Capacity + 1))
    /\ [][/\ ret' \in OkResults => round <= Capacity
          /\ (ret # "TooFewDimensions" /\ round > Capacity)
                => /\ ret' \notin OkResults
                   /\ board' = board
                   /\ round' = round]_vars

\* the round counter at capacity + 1, and a call rejected there
C11_Witness ==
    /\ round = Capacity + 1
    /\ ret = "BoardFull"
    /\ RightLength(dims, argPos)

----------------------------------------------------------------------------
(* C12 *)

RECURSIVE Pow3(_)
Pow3(n) == IF n = 0 THEN 1 ELSE 3 * Pow3(n - 1)

\* C12: the direction set of a game with D >= 2 dimensions has exactly
\* (3^D - 1) / 2 vectors, each of length D with components in {-1, 0, 1};
\* it does not hold the all-zero vector and holds exactly one of v and -v
\* for every non-zero v of {-1, 0, 1}^D.
C12_HalfOfTheDirections ==
    ret # "TooFewDimensions" =>
        LET D == Len(dims)
        IN /\ D >= 2
           /\ check_vecs = generate_check_vecs(D)
           /\ Cardinality(check_vecs) = (Pow3(D) - 1) \div 2
           /\ \A v \in check_vecs :
                 /\ DOMAIN v = 1..D
                 /\ \A i \in 1..D : v[i] \in {-1, 0, 1}
           /\ [i \in 1..D |-> 0] \notin check_vecs
           /\ \A v \in StepVectors(D) :
                 (v \in check_vecs) # (Neg(v) \in check_vecs)

\* the 13 directions of a game with 3 dimensions
C12_Witness ==
    /\ ret = "New"
    /\ Len(dims) = 3
    /\ Cardinality(check_vecs) = 13

----------------------------------------------------------------------------
(* C13 *)

\* the fixed coordinates of the columns of the board b
Columns(b) == {SubSeq(c, 1, Len(c) - 1) : c \in DOMAIN b}

\* the number of occupied cells of the column at p
Height(b, d, p) ==
    Cardinality({i \in 0..(d[Len(d)] - 1) : b[Append(p, i)] # "None"})

\* C13: in every state of a game the occupied cells of every column are the
\* indices 0..h-1 along the last axis, for some h between 0 and the length
\* of that axis: no empty cell lies below an occupied one.
C13_Gravity ==
    ret # "TooFewDimensions" =>
        \A p \in Columns(board) :
            \E h \in 0..dims[Len(dims)] :
                \A i \in 0..(dims[Len(dims)] - 1) :
                    (board[Append(p, i)] # "None") <=> (i < h)

\* a partly filled column beside an empty one and a full one
C13_Witness ==
    /\ ret \in OkResults
    /\ \E p, q, r \in Columns(board) :
          /\ Height(board, dims, p) = 0
          /\ Height(board, dims, q) = dims[Len(dims)]
          /\ Height(board, dims, r) > 0
          /\ Height(board, dims, r) < dims[Len(dims)]

----------------------------------------------------------------------------
(* C14 *)

\* C14: play_disk tests for BoardFull first, then the shape of pos, then it
\* inserts: a call whose pos has not D-1 coordinates panics with board and
\* round unchanged when round <= capacity and returns BoardFull when
\* round > capacity; it never places a disk.
C14_CheckOrder ==
    [][(/\ ret \notin {"TooFewDimensions", "Panic"}
        /\ ~RightLength(dims, argPos'))
          => /\ round <= Capacity => ret' = "Panic"
             /\ round > Capacity => ret' = "BoardFull"
             /\ board' = board
             /\ round' = round
             /\ pos' = argPos']_vars

\* a panic on a board that holds disks
C14_Witness ==
    /\ ret = "Panic"
    /\ ~RightLength(dims, argPos)
    /\ Occupied >= 1
    /\ round <= Capacity

----------------------------------------------------------------------------
(* C15 *)

\* C15: round - 1 never exceeds the number of occupied cells, and play_disk
\* returns BoardFull only when every cell of the board is occupied.
C15_BoardFullOnlyWhenFull ==
    ret # "TooFewDimensions" =>
        /\ round - 1 <= Occupied
        /\ ret = "BoardFull" => Occupied = Capacity

\* BoardFull on a board without an empty cell
C15_Witness ==
    /\ ret = "BoardFull"
    /\ \A c \in DOMAIN board : board[c] # "None"
    /\ round - 1 = Occupied

----------------------------------------------------------------------------
(* C16 *)

\* C16: a cell that holds a color holds that color in every later state: no
\* call empties or recolors a cell.
C16_WriteOnce ==
    [][/\ DOMAIN board' = DOMAIN board
       /\ \A c \in DOMAIN board :
             board[c] # "None" => board'[c] = board[c]]_vars

\* a disk placed on a board that holds disks of both colors, one column full
C16_Witness ==
    /\ ret = "OkFalse"
    /\ \E c, e \in DOMAIN board : board[c] = "Red" /\ board[e] = "Yellow"
    /\ \E p \in Columns(board) : ColumnOccupied(board, dims, p)

----------------------------------------------------------------------------
(* C17 *)

\* C17: at most capacity calls return Ok, and after capacity
\* accepted moves every further call fails with BoardFull or AxisFull.
C17_RefusedWithBoardFullOrAxisFull ==
    /\ [](ret # "TooFewDimensions" => nOk <= Capacity)
    /\ [][(ret \notin {"TooFewDimensions", "Panic"} /\ nOk = Capacity)
            => ret' \in {"BoardFull", "AxisFull"}]_vars

\* What the code does keep of C17: at most capacity calls return Ok, and after
\* capacity accepted moves no call is accepted; a call with a pos of D-1
\* coordinates fails with BoardFull or AxisFull, a call with a pos of another
\* length fails with BoardFull or, when winning moves have kept round at or
\* below capacity, panics in check_input.
C17_AtMostCapacityAccepted ==
    /\ [](ret # "TooFewDimensions" => nOk <= Capacity)
    /\ [][(ret \notin {"TooFewDimensions", "Panic"} /\ nOk = Capacity)
            => /\ nOk' = nOk
               /\ RightLength(dims, argPos')
                     => ret' \in {"BoardFull", "AxisFull"}
               /\ ~RightLength(dims, argPos')
                     => ret' \in {"BoardFull", "Panic"}]_vars

\* capacity moves accepted, one of them a win, and the next call refused
\* with AxisFull
C17_Witness ==
    /\ nOk = Capacity
    /\ won
    /\ ret = "AxisFull"

====
